---- MODULE Spec2Model ----
(***************************************************************************)
(* A model of fast_server.py: the image-ingest echo service.               *)
(*                                                                         *)
(* Strings are sequences of one-character strings, byte strings are        *)
(* sequences of integers in 0..255.  Python's None is the sentinel None.   *)
(* Handlers are split at the points where the coroutine can be suspended   *)
(* with other work of the event loop in between (await ws.receive(),       *)
(* await ws.send_json(...), the awaits inside save_image).                 *)
(***************************************************************************)
EXTENDS Integers, Sequences, FiniteSets, TLC

VARIABLES
    STORE_IMAGES,   \* the module-level toggle (line 19), fixed at start-up
    now,            \* the wall clock, in whole seconds
    files,          \* RECEIVED_IMAGES_DIR: file name -> content (bytes)
    tasks,          \* the save_image tasks handed to the event loop
    last,           \* the last HTTP exchange: the request and its response
    wsPc,           \* websocket_endpoint: "accept", "receive", "send", "closed"
                    \* ("none": no client has opened /ws)
    wsPending,      \* the reply handed to ws.send_json, not yet sent
    wsSent,         \* the replies sent: the frame each answers, error or not
    wsRecv,         \* data frames (text or binary) received so far
    wsEvents,       \* events returned by ws.receive() so far
    wsData,         \* the event ws.receive() returned last
    wsGone,         \* whether ws.receive() returned a disconnect event
    payload,        \* decode runs: the payload X under comparison
    label0,         \* decode runs: the label sent with both image strings
    bare,           \* decode runs: outcome for the image string X
    prefixed        \* decode runs: outcome for 'data:image/jpeg;base64,' + X

vars == <<STORE_IMAGES, now, files, tasks, last, wsPc, wsPending, wsSent,
          wsRecv, wsEvents, wsData, wsGone, payload, label0, bare, prefixed>>

wsVars == <<wsPc, wsPending, wsSent, wsRecv, wsEvents, wsData, wsGone>>
decVars == <<payload, label0, bare, prefixed>>

----------------------------------------------------------------------------
(* Bounds of the model. *)

MaxBody == 4        \* longest image-string body drawn in the decode runs
MaxTasks == 1       \* save_image tasks created in one run of the service
MaxFrames == 2      \* events one /ws connection receives in one run
MaxWrites == 2      \* save_image tasks created in one storage run
MaxClock == 1       \* seconds the clock advances in one storage run

----------------------------------------------------------------------------
(* Values. *)

None == <<"None">>              \* Python None (no one-character element)
JsonNumber == <<"123">>         \* a JSON value that is not a string
DecodeError == <<-1>>           \* base64.b64decode raised

RECURSIVE SeqsUpTo(_, _)
SeqsUpTo(S, n) ==
    IF n = 0 THEN {<<>>}
    ELSE LET shorter == SeqsUpTo(S, n - 1)
         IN shorter \cup {Append(s, c) : s \in shorter, c \in S}

Str(s) == s \notin {None, JsonNumber}       \* isinstance(s, str)

DataPrefix == <<"d", "a", "t", "a", ":">>
DataUriPrefix ==
    <<"d", "a", "t", "a", ":", "i", "m", "a", "g", "e", "/", "j", "p", "e",
      "g", ";", "b", "a", "s", "e", "6", "4", ",">>

BodyChars == {"A", "Q", "=", "@", ","}

\* table_a2b_base64 on the characters the model uses; 64 is "not in the
\* alphabet" (the table's -1).
B64Val(c) ==
    CASE c = "A" -> 0   [] c = "Q" -> 16  [] c = "a" -> 26  [] c = "b" -> 27
      [] c = "d" -> 29  [] c = "e" -> 30  [] c = "g" -> 32  [] c = "i" -> 34
      [] c = "j" -> 35  [] c = "m" -> 38  [] c = "p" -> 41  [] c = "s" -> 44
      [] c = "t" -> 45  [] c = "4" -> 56  [] c = "6" -> 58  [] c = "/" -> 63
      [] OTHER -> 64

----------------------------------------------------------------------------
(* str.startswith, str.find and the slice of lines 88-92 / 163-166. *)

startswith(s, p) == Len(s) >= Len(p) /\ SubSeq(s, 1, Len(p)) = p

\* s.find(c): the 0-based index of the first c, or -1.
find(s, c) ==
    IF \E i \in 1..Len(s) : s[i] = c
    THEN (CHOOSE i \in 1..Len(s) : s[i] = c /\ \A j \in 1..(i - 1) : s[j] # c) - 1
    ELSE -1

StripNever(img_str) == img_str

StripDataUri(img_str) ==
    IF startswith(img_str, DataPrefix)
    THEN LET comma == find(img_str, ",")
         IN IF comma # -1 THEN SubSeq(img_str, comma + 2, Len(img_str))
            ELSE img_str
    ELSE img_str

----------------------------------------------------------------------------
(* base64.b64decode(s) with its defaults (validate=False), that is         *)
(* binascii.a2b_base64 in non-strict mode: characters outside the alphabet *)
(* are skipped, a complete pad sequence ends the parse, and leftover data  *)
(* characters of an incomplete quad raise.                                 *)

RECURSIVE a2b_base64(_, _, _, _, _, _)
a2b_base64(s, i, quad_pos, leftchar, pads, out) ==
    IF i > Len(s)
    THEN IF quad_pos # 0 THEN DecodeError ELSE out
    ELSE LET c == s[i] IN
         IF c = "="
         THEN IF quad_pos >= 2 /\ quad_pos + pads + 1 >= 4
              THEN out
              ELSE a2b_base64(s, i + 1, quad_pos, leftchar,
                              IF quad_pos >= 2 THEN pads + 1 ELSE pads, out)
         ELSE LET v == B64Val(c) IN
              IF v >= 64
              THEN a2b_base64(s, i + 1, quad_pos, leftchar, pads, out)
              ELSE CASE quad_pos = 0 ->
                        a2b_base64(s, i + 1, 1, v, 0, out)
                     [] quad_pos = 1 ->
                        a2b_base64(s, i + 1, 2, v % 16, 0,
                                   Append(out, leftchar * 4 + (v \div 16)))
                     [] quad_pos = 2 ->
                        a2b_base64(s, i + 1, 3, v % 4, 0,
                                   Append(out, leftchar * 16 + (v \div 4)))
                     [] OTHER ->
                        a2b_base64(s, i + 1, 0, 0, 0,
                                   Append(out, leftchar * 64 + v))

b64decode(s) == a2b_base64(s, 1, 0, 0, 0, <<>>)

----------------------------------------------------------------------------
(* Inputs the callers draw from. *)

Bodies == SeqsUpTo(BodyChars, MaxBody)
Payloads == Bodies \cup {DataPrefix \o b : b \in Bodies}

Labels == {None, <<>>, <<"c">>, <<"c", "/">>}

SampleImages ==
    { <<"Q", "Q", "=", "=">>,                       \* b"A"
      <<"Q", "Q", "=">>,                            \* incorrect padding
      <<"@">>,                                      \* no alphabet character
      DataUriPrefix \o <<"Q", "Q", "=", "=">> }

ByteSamples == {<<65>>, <<1, 2>>}

NoText == [json |-> "none"]     \* data["text"] missing or None
NoBytes == <<-2>>               \* data["bytes"] missing or None

----------------------------------------------------------------------------
(* make_control_command, lines 53-63.  "if label:" is Python truthiness:   *)
(* None and the empty string are both false.                               *)

Truthy(label) == label # None /\ label # <<>>

make_control_command(label) ==
    IF Truthy(label)
    THEN [action |-> "ACK", labelReceived |-> label]
    ELSE [action |-> "ACK"]

\* current_iso_timestamp, lines 30-32: the clock reading (its ISO-8601
\* rendering is not modelled; no claim rests on it).
current_iso_timestamp == now

Envelope(label) ==
    [command |-> make_control_command(label),
     commandSentAt |-> current_iso_timestamp]

----------------------------------------------------------------------------
(* save_image, lines 65-73, one step per suspension point.                 *)

\* strftime("%Y%m%dT%H%M%SZ"): one name per second of the clock.
strftime(t) == <<ToString(t), "Z">>

filename(t, label) ==
    strftime(t) \o (IF Truthy(label) THEN <<"_">> \o label ELSE <<>>)
                \o <<".", "j", "p", "g">>

\* open(path, "wb") creates or truncates the file; it raises when the name
\* has a directory part, since RECEIVED_IMAGES_DIR holds no directories.
CanOpen(path) == \A i \in 1..Len(path) : path[i] # "/"

\* A write of data at offset 0 through a descriptor of its own.
WriteAt0(content, data) ==
    data \o SubSeq(content, Len(data) + 1, Len(content))

NewTask(image_bytes, label) ==
    [image_bytes |-> image_bytes, label |-> label, pc |-> "scheduled",
     path |-> <<>>]

\* Lines 66-71: return at once when storage is off, else pick the name.
SaveStart(i) ==
    /\ tasks[i].pc = "scheduled"
    /\ tasks' = [tasks EXCEPT
                   ![i].pc = IF STORE_IMAGES THEN "open" ELSE "done",
                   ![i].path = IF STORE_IMAGES
                               THEN filename(now, tasks[i].label) ELSE <<>>]
    /\ UNCHANGED <<STORE_IMAGES, now, files, last, wsVars, decVars>>

\* Line 72: aiofiles.open(path, "wb").  An exception ends the task; nothing
\* awaits the task, so nobody sees it.
SaveOpen(i) ==
    /\ tasks[i].pc = "open"
    /\ IF CanOpen(tasks[i].path)
       THEN /\ files' = (tasks[i].path :> <<>>) @@ files
            /\ tasks' = [tasks EXCEPT ![i].pc = "write"]
       ELSE /\ tasks' = [tasks EXCEPT ![i].pc = "failed"]
            /\ UNCHANGED files
    /\ UNCHANGED <<STORE_IMAGES, now, last, wsVars, decVars>>

\* Line 73 and the close of the with block: the bytes reach the file.
SaveWrite(i) ==
    /\ tasks[i].pc = "write"
    /\ files' = [files EXCEPT
                   ![tasks[i].path] = WriteAt0(@, tasks[i].image_bytes)]
    /\ tasks' = [tasks EXCEPT ![i].pc = "done"]
    /\ UNCHANGED <<STORE_IMAGES, now, last, wsVars, decVars>>

Tick ==
    /\ now' = now + 1
    /\ UNCHANGED <<STORE_IMAGES, files, tasks, last, wsVars, decVars>>

----------------------------------------------------------------------------
(* POST /uploadBase64, lines 77-106.                                       *)

\* Lines 86-96: the image string to bytes, or DecodeError.
DecodeImage(image) == b64decode(StripDataUri(image))

upload_base64_envelope_always(label, image) ==
    [status |-> 200, body |-> Envelope(label),
     image_bytes |-> IF DecodeImage(image) = DecodeError THEN <<>>
                     ELSE DecodeImage(image)]

\* What the handler returns, with the bytes it hands to save_image.
upload_base64_result(label, image) ==
    LET image_bytes == DecodeImage(image)
    IN IF image_bytes = DecodeError
       THEN [status |-> 400, body |-> [error |-> "Invalid base64 image"],
             image_bytes |-> DecodeError]
       ELSE [status |-> 200, body |-> Envelope(label),
             image_bytes |-> image_bytes]

upload_base64(label, image) ==
    LET r == upload_base64_result(label, image)
        scheduled == r.image_bytes # DecodeError
    IN /\ tasks' = IF scheduled
                   THEN Append(tasks, NewTask(r.image_bytes, label))
                   ELSE tasks
       /\ last' = [transport |-> "uploadBase64", label |-> label,
                   image |-> image, status |-> r.status, body |-> r.body,
                   task |-> IF scheduled THEN Len(tasks) + 1 ELSE 0]
       /\ UNCHANGED <<STORE_IMAGES, now, files, wsVars, decVars>>

----------------------------------------------------------------------------
(* POST /upload, lines 108-133.  read_ok is whether image.read() returned. *)

upload_form_awaiting(label, read_ok, contents) ==
    LET path == filename(now, label)
        saved == ~STORE_IMAGES \/ CanOpen(path)
    IN /\ files' = IF read_ok /\ STORE_IMAGES /\ CanOpen(path)
                   THEN (path :> contents) @@ files ELSE files
       /\ last' = [transport |-> "upload", label |-> label,
                   read_ok |-> read_ok, contents |-> contents,
                   status |-> IF read_ok /\ saved THEN 200 ELSE 500,
                   body |-> IF ~read_ok
                            THEN [error |-> "Failed to read uploaded file"]
                            ELSE IF saved THEN Envelope(label)
                            ELSE [error |-> "Internal Server Error"],
                   task |-> 0]
       /\ UNCHANGED <<STORE_IMAGES, now, tasks, wsVars, decVars>>

upload_form(label, read_ok, contents) ==
    /\ tasks' = IF read_ok
                THEN Append(tasks, NewTask(contents, label))
                ELSE tasks
    /\ last' = [transport |-> "upload", label |-> label,
                read_ok |-> read_ok, contents |-> contents,
                status |-> IF read_ok THEN 200 ELSE 500,
                body |-> IF read_ok THEN Envelope(label)
                         ELSE [error |-> "Failed to read uploaded file"],
                task |-> IF read_ok THEN Len(tasks) + 1 ELSE 0]
    /\ UNCHANGED <<STORE_IMAGES, now, files, wsVars, decVars>>

----------------------------------------------------------------------------
(* WebSocket /ws, lines 141-205.                                           *)

NoPending == [re |-> 0]
NoData == [type |-> "none"]

IsError(body) == "error" \in DOMAIN body

\* Lines 156-176: the reply to a text frame, with the bytes and the label
\* handed to save_image (DecodeError: nothing is handed over).  json.loads
\* raising, msg.get raising on a value that is no object and b64decode
\* raising all end in the except clause of line 174.
ws_text_result(text) ==
    IF text.json # "object"
    THEN [body |-> [error |-> "Malformed JSON or base64 decode error"],
          image_bytes |-> DecodeError, label |-> None]
    ELSE IF Str(text.image)
    THEN LET image_bytes == DecodeImage(text.image)
         IN IF image_bytes = DecodeError
            THEN [body |-> [error |-> "Malformed JSON or base64 decode error"],
                  image_bytes |-> DecodeError, label |-> None]
            ELSE [body |-> Envelope(text.label),
                  image_bytes |-> image_bytes, label |-> text.label]
    ELSE [body |-> [error |->
                      "Invalid message format: 'image' must be base64 string"],
          image_bytes |-> DecodeError, label |-> None]

\* Lines 188-197: a binary frame is the image; save_image and
\* make_control_command are called without a label.
ws_bytes_result(bytes) ==
    [body |-> Envelope(None), image_bytes |-> bytes, label |-> None]

ws_can_receive_eager == wsPc \in {"receive", "send"}

\* Line 151: the handler is suspended in await ws.receive().
ws_can_receive == wsPc = "receive"

ws_on_disconnect_continue == "receive"

\* Lines 201-202: break.
ws_on_disconnect == "closed"

ws_after_send_break(body) == IF IsError(body) THEN "closed" ELSE "receive"

\* Lines 173, 176 (continue) and the end of the loop body after lines 185
\* and 197: back to await ws.receive().
ws_after_send(body) == "receive"

\* Line 147.
ws_accept ==
    /\ wsPc = "accept"
    /\ wsPc' = "receive"
    /\ UNCHANGED <<STORE_IMAGES, now, files, tasks, last, wsPending, wsSent,
                   wsRecv, wsEvents, wsData, wsGone, decVars>>

\* A data frame: lines 155-185 or 187-197 up to the call of ws.send_json.
ws_reply(r) ==
    LET scheduled == r.image_bytes # DecodeError
    IN /\ tasks' = IF scheduled
                   THEN Append(tasks, NewTask(r.image_bytes, r.label))
                   ELSE tasks
       /\ wsPending' = [re |-> wsRecv + 1, body |-> r.body,
                        task |-> IF scheduled THEN Len(tasks) + 1 ELSE 0]
       /\ wsRecv' = wsRecv + 1
       /\ wsPc' = "send"
       /\ UNCHANGED wsGone

\* ws.receive() returns data; the loop body runs to its next await.
ws_receive(data) ==
    /\ ws_can_receive
    /\ wsEvents' = wsEvents + 1
    /\ wsData' = data
    /\ IF data.type = "websocket.receive"
       THEN IF data.text # NoText
            THEN ws_reply(ws_text_result(data.text))
            ELSE IF data.bytes # NoBytes
            THEN ws_reply(ws_bytes_result(data.bytes))
            ELSE UNCHANGED <<tasks, wsPending, wsRecv, wsPc, wsGone>>
       ELSE IF data.type = "websocket.disconnect"
       THEN /\ wsPc' = ws_on_disconnect
            /\ wsGone' = TRUE
            /\ UNCHANGED <<tasks, wsPending, wsRecv>>
       ELSE UNCHANGED <<tasks, wsPending, wsRecv, wsPc, wsGone>>
    /\ UNCHANGED <<STORE_IMAGES, now, files, last, wsSent, decVars>>

\* await ws.send_json(...) returns: the frame is on the wire.
ws_send ==
    /\ wsPc = "send"
    /\ wsSent' = Append(wsSent, [re |-> wsPending.re,
                                 error |-> IsError(wsPending.body)])
    /\ wsPending' = NoPending
    /\ wsPc' = ws_after_send(wsPending.body)
    /\ UNCHANGED <<STORE_IMAGES, now, files, tasks, last, wsRecv, wsEvents,
                   wsData, wsGone, decVars>>

----------------------------------------------------------------------------
(* The service.  A run is driven by an HTTP client or by one /ws client;   *)
(* the transports share nothing but the tasks and the files.  The clock    *)
(* only names files: it advances in the storage runs below.                *)

NotRun == [run |-> FALSE]

\* What json.loads(data["text"]) meets: text that is not JSON, JSON that is
\* not an object, or an object whose "label" and "image" members are given.
WsTexts ==
    {[json |-> "invalid"], [json |-> "array"]}
    \cup {[json |-> "object", label |-> l, image |-> i] :
            l \in Labels, i \in SampleImages \cup {None, JsonNumber}}

WsData ==
    {[type |-> "websocket.receive", text |-> t, bytes |-> NoBytes] :
        t \in WsTexts}
    \cup {[type |-> "websocket.receive", text |-> NoText, bytes |-> b] :
            b \in ByteSamples}
    \cup {[type |-> "websocket.receive", text |-> NoText, bytes |-> NoBytes],
          [type |-> "websocket.ping", text |-> NoText, bytes |-> NoBytes],
          [type |-> "websocket.disconnect", text |-> NoText, bytes |-> NoBytes]}

Quiet ==
    /\ now = 0
    /\ files = <<>>
    /\ tasks = <<>>
    /\ last = [transport |-> "none"]
    /\ wsPending = NoPending
    /\ wsSent = <<>>
    /\ wsRecv = 0
    /\ wsEvents = 0
    /\ wsData = NoData
    /\ wsGone = FALSE

Init ==
    /\ STORE_IMAGES \in BOOLEAN
    /\ wsPc \in {"none", "accept"}
    /\ Quiet
    /\ payload = <<>>
    /\ label0 = None
    /\ bare = NotRun
    /\ prefixed = NotRun

Next ==
    \/ \E i \in DOMAIN tasks : SaveStart(i)
    \/ \E i \in DOMAIN tasks : SaveOpen(i)
    \/ \E i \in DOMAIN tasks : SaveWrite(i)
    \/ /\ wsPc = "none"
       /\ \E label \in Labels, image \in SampleImages :
             upload_base64(label, image)
       /\ Len(tasks') <= MaxTasks
    \/ /\ wsPc = "none"
       /\ \E label \in Labels, read_ok \in BOOLEAN, contents \in ByteSamples :
             upload_form(label, read_ok, contents)
       /\ Len(tasks') <= MaxTasks
    \/ ws_accept
    \/ /\ wsEvents < MaxFrames
       /\ \E data \in WsData : ws_receive(data)
       /\ Len(tasks') <= MaxTasks
    \/ ws_send

Spec == Init /\ [][Next]_vars

----------------------------------------------------------------------------
(* Storage runs: storage is on, uploads arrive on POST /upload and the     *)
(* clock advances, so that tasks meet on one file name or miss each other. *)

InitStore ==
    /\ STORE_IMAGES = TRUE
    /\ wsPc = "none"
    /\ Quiet
    /\ payload = <<>>
    /\ label0 = None
    /\ bare = NotRun
    /\ prefixed = NotRun

NextStore ==
    \/ now < MaxClock /\ Tick
    \/ \E i \in DOMAIN tasks : SaveStart(i)
    \/ \E i \in DOMAIN tasks : SaveOpen(i)
    \/ \E i \in DOMAIN tasks : SaveWrite(i)
    \/ /\ Len(tasks) < MaxWrites
       /\ \E label \in Labels, contents \in ByteSamples :
             upload_form(label, TRUE, contents)

SpecStore == InitStore /\ [][NextStore]_vars

----------------------------------------------------------------------------
(* Decode runs: one payload X and one label, sent once as the image string *)
(* X and once as 'data:image/jpeg;base64,' + X, on the JSON path and as a  *)
(* /ws text frame.                                                         *)

Outcome(label, image) ==
    [http |-> upload_base64_result(label, image),
     ws |-> ws_text_result([json |-> "object", label |-> label,
                            image |-> image])]

RunBare ==
    /\ bare = NotRun
    /\ bare' = Outcome(label0, payload)
    /\ UNCHANGED <<STORE_IMAGES, now, files, tasks, last, wsVars, payload,
                   label0, prefixed>>

RunPrefixed ==
    /\ prefixed = NotRun
    /\ prefixed' = Outcome(label0, DataUriPrefix \o payload)
    /\ UNCHANGED <<STORE_IMAGES, now, files, tasks, last, wsVars, payload,
                   label0, bare>>

InitDecode ==
    /\ STORE_IMAGES = FALSE
    /\ wsPc = "none"
    /\ Quiet
    /\ payload \in Payloads
    /\ label0 \in {None, <<"c">>}
    /\ bare = NotRun
    /\ prefixed = NotRun

NextDecode == RunBare \/ RunPrefixed

SpecDecode == InitDecode /\ [][NextDecode]_vars

----------------------------------------------------------------------------
(* Vocabulary of the properties.                                           *)

IsEnvelope(body) == DOMAIN body = {"command", "commandSentAt"}

IsHttp == last.transport \in {"uploadBase64", "upload"}

\* The bytes of the last HTTP request were obtained: b64decode returned,
\* or image.read() returned.
HttpObtained ==
    IF last.transport = "uploadBase64"
    THEN DecodeImage(last.image) # DecodeError
    ELSE last.read_ok

IsTextFrame(data) == data.type = "websocket.receive" /\ data.text # NoText

IsBinaryFrame(data) ==
    data.type = "websocket.receive" /\ data.text = NoText /\ data.bytes # NoBytes

IsDataFrame(data) == IsTextFrame(data) \/ IsBinaryFrame(data)

\* The bytes of a /ws frame were obtained: a binary frame, or a text frame
\* holding a JSON object whose image is a string that b64decode accepts.
WsObtained(data) ==
    \/ IsBinaryFrame(data)
    \/ /\ IsTextFrame(data)
       /\ data.text.json = "object"
       /\ Str(data.text.image)
       /\ DecodeImage(data.text.image) # DecodeError

\* Replies on the connection that are no error frames, sent or pending.
WsSuccesses ==
    Cardinality({i \in DOMAIN wsSent : ~wsSent[i].error})
    + (IF wsPc = "send" /\ ~IsError(wsPending.body) THEN 1 ELSE 0)

Unfinished(t) == t.pc \in {"scheduled", "open", "write"}

----------------------------------------------------------------------------
(* C1.  On every transport the success envelope {command, commandSentAt}   *)
(* is what a request or frame gets exactly when its image bytes were       *)
(* obtained (b64decode or image.read() returned; a binary frame); when     *)
(* they were not, the reply is an error body or frame, and on HTTP the     *)
(* status is 400 for /uploadBase64 and 500 for /upload.                    *)
C1_EnvelopeIffObtained ==
    /\ IsHttp =>
          /\ IsEnvelope(last.body) <=> HttpObtained
          /\ IsError(last.body) <=> ~HttpObtained
          /\ last.status = (IF HttpObtained THEN 200
                            ELSE IF last.transport = "uploadBase64" THEN 400
                            ELSE 500)
    /\ wsPc = "send" =>
          /\ IsEnvelope(wsPending.body) <=> WsObtained(wsData)
          /\ IsError(wsPending.body) <=> ~WsObtained(wsData)

\* On one connection a frame was answered with the envelope and the next,
\* whose bytes could not be obtained, is being answered with an error frame.
C1_Witness ==
    /\ wsPc = "send"
    /\ IsTextFrame(wsData)
    /\ ~WsObtained(wsData)
    /\ IsError(wsPending.body)
    /\ \E i \in DOMAIN wsSent : ~wsSent[i].error

----------------------------------------------------------------------------
\* The command echoes the label: present exactly for a label that is not
\* None, and then equal to it.
LabelEchoed(cmd, label) ==
    /\ cmd.action = "ACK"
    /\ ("labelReceived" \in DOMAIN cmd) <=> (label # None)
    /\ label # None =>
          /\ "labelReceived" \in DOMAIN cmd
          /\ cmd.labelReceived = label

(* C2.  On every transport the command has action "ACK" and holds          *)
(* labelReceived if and only if the caller's label is not null (the empty  *)
(* string included), with the label as its value; a binary frame yields a  *)
(* command without labelReceived.                                          *)
C2_LabelReceivedIffNotNull ==
    /\ (IsHttp /\ IsEnvelope(last.body)) =>
          LabelEchoed(last.body.command, last.label)
    /\ (wsPc = "send" /\ IsEnvelope(wsPending.body)) =>
          LabelEchoed(wsPending.body.command,
                      IF IsTextFrame(wsData) THEN wsData.text.label ELSE None)

----------------------------------------------------------------------------
\* Well-formed standard base64 (RFC 4648, section 4): whole quads of
\* alphabet characters, the last quad ending in at most two pad characters.
WellFormedBase64(s) ==
    /\ Len(s) % 4 = 0
    /\ \A i \in 1..Len(s) :
          \/ B64Val(s[i]) < 64
          \/ /\ s[i] = "="
             /\ i >= Len(s) - 1
             /\ \A j \in i..Len(s) : s[j] = "="

(* C3.  POST /uploadBase64 with an image string that is not well-formed    *)
(* base64 (after the data: prefix is removed) gets status 400 and the body *)
(* {"error": "Invalid base64 image"} and schedules no save_image task, so  *)
(* that no file is written for it.                                         *)
C3_MalformedBase64Rejected ==
    (last.transport = "uploadBase64"
       /\ ~WellFormedBase64(StripDataUri(last.image))) =>
        /\ last.status = 400
        /\ last.body = [error |-> "Invalid base64 image"]
        /\ last.task = 0

----------------------------------------------------------------------------
(* C4.  On /ws a text frame that is not JSON (or no JSON object), whose    *)
(* image is no string, or whose image b64decode rejects, gets exactly one  *)
(* error frame and schedules no save_image task; the loop goes on, so the  *)
(* connection ends only on a disconnect event and a later frame whose      *)
(* bytes are obtained still gets the envelope.                             *)
C4_WsErrorsKeepConnectionOpen ==
    /\ wsPc = "closed" => wsGone
    /\ wsPc # "none" => Len(tasks) = WsSuccesses
    /\ wsPc = "send" =>
          /\ wsPending.re = wsRecv
          /\ IF WsObtained(wsData)
             THEN /\ IsEnvelope(wsPending.body)
                  /\ wsPending.task = Len(tasks)
             ELSE /\ wsPending.task = 0
                  /\ wsPending.body =
                        IF wsData.text.json = "object" /\ ~Str(wsData.text.image)
                        THEN [error |-> "Invalid message format: 'image' must be base64 string"]
                        ELSE [error |-> "Malformed JSON or base64 decode error"]

\* An error frame was sent, and a later frame on the same connection got
\* the envelope.
C4_Witness ==
    \E i, j \in DOMAIN wsSent : i < j /\ wsSent[i].error /\ ~wsSent[j].error

----------------------------------------------------------------------------
(* C5.  On one /ws connection the k-th reply answers the k-th data frame,  *)
(* every data frame has one reply, sent before the handler receives the    *)
(* next event, and the reply can be sent whatever the state of the         *)
(* save_image tasks of earlier frames.                                     *)
C5_WsRepliesInOrder ==
    /\ \A i \in DOMAIN wsSent : wsSent[i].re = i
    /\ wsRecv = Len(wsSent) + (IF wsPc = "send" THEN 1 ELSE 0)
    /\ wsPc = "send" => wsPending.re = Len(wsSent) + 1
    /\ wsPc # "send" => wsPending = NoPending
    /\ (wsPc = "send" /\ \E i \in DOMAIN tasks : Unfinished(tasks[i])) =>
          ENABLED ws_send

\* Two frames were answered in turn while the write of the first was still
\* to be started.
C5_Witness ==
    /\ Len(wsSent) = 2
    /\ ~wsSent[1].error
    /\ Len(tasks) >= 1
    /\ tasks[1].pc = "scheduled"

----------------------------------------------------------------------------
\* What the caller of a request or frame with obtained bytes is given.
C6_ReplyState ==
    /\ (IsHttp /\ HttpObtained) =>
          /\ last.status = 200
          /\ last.body.command = make_control_command(last.label)
          /\ last.task \in DOMAIN tasks
    /\ (wsPc = "send" /\ WsObtained(wsData)) =>
          /\ IsEnvelope(wsPending.body)
          /\ wsPending.task \in DOMAIN tasks

\* A step that produces or sends a reply does no work of save_image; hence
\* a step of save_image changes no reply.
C6_ReplyStep ==
    (last' # last \/ wsPending' # wsPending \/ wsSent' # wsSent) =>
        /\ files' = files
        /\ \A i \in DOMAIN tasks : tasks'[i] = tasks[i]
        /\ \A i \in DOMAIN tasks' \ DOMAIN tasks : tasks'[i].pc = "scheduled"

(* C6.  The response does not wait for save_image and does not depend on   *)
(* it: a request or frame whose bytes were obtained gets status 200 and    *)
(* the envelope with its task merely created; the step that produces or    *)
(* sends a reply touches no file and no existing task, and no step of a    *)
(* task (started, opened, written, failed, or never run) changes a reply.  *)
C6_ResponseIndependentOfWrite == [](C6_ReplyState) /\ [][C6_ReplyStep]_vars

\* The write of the last HTTP upload failed; its response is the 200
\* envelope all the same.
C6_Witness ==
    /\ IsHttp
    /\ last.task \in DOMAIN tasks
    /\ tasks[last.task].pc = "failed"
    /\ last.status = 200
    /\ IsEnvelope(last.body)

----------------------------------------------------------------------------
\* The file name the claim gives an upload saved in second t.
ClaimedName(t, label) ==
    strftime(t) \o (IF label # None THEN <<"_">> \o label ELSE <<>>)
                \o <<".", "j", "p", "g">>

\* The step that ends task i leaves the claimed file with the task's bytes.
C7_TaskEnd(i) ==
    (Unfinished(tasks[i]) /\ ~Unfinished(tasks'[i])) =>
        \E t \in 0..MaxClock :
            /\ ClaimedName(t, tasks[i].label) \in DOMAIN files'
            /\ files'[ClaimedName(t, tasks[i].label)] = tasks[i].image_bytes

(* C7.  With storage on, when the save_image task of an upload ends, a     *)
(* file named <timestamp>_L.jpg for a label L (any label that is not       *)
(* null), or <timestamp>.jpg without a label, exists and holds exactly the *)
(* uploaded bytes.                                                         *)
C7_OneFilePerUpload == [][\A i \in DOMAIN tasks : C7_TaskEnd(i)]_vars

----------------------------------------------------------------------------
\* The tasks that have opened path.
Writers(path) ==
    {i \in DOMAIN tasks : tasks[i].path = path /\ tasks[i].pc \in {"write", "done"}}

\* Once all its writers are done, a file holds the payload of one of them.
C9_NoMixture ==
    \A path \in DOMAIN files :
        (\A i \in Writers(path) : tasks[i].pc = "done") =>
            files[path] \in {tasks[i].image_bytes : i \in Writers(path)}

\* The write step of task i leaves the file holding exactly its bytes.
C9_WriteStep(i) ==
    (tasks[i].pc = "write" /\ tasks'[i].pc = "done") =>
        files'[tasks[i].path] = tasks[i].image_bytes

(* C9.  When writes of several tasks meet on one file name, under every    *)
(* interleaving of their open and write steps each write leaves the file   *)
(* holding exactly its own bytes, so that the file ends with the bytes of  *)
(* the later write and never with a mixture of two payloads.               *)
C9_LaterWriteWins ==
    [](C9_NoMixture) /\ [][\A i \in DOMAIN tasks : C9_WriteStep(i)]_vars

----------------------------------------------------------------------------
(* C8.  As claimed: for every payload X, the image strings X and           *)
(* 'data:image/jpeg;base64,' + X give the same bytes and the same reply on *)
(* the JSON path and on the /ws text path (or both are rejected).          *)
C8_PrefixNeverMatters ==
    (bare # NotRun /\ prefixed # NotRun) => bare = prefixed

\* X itself starts with "data:" and holds a comma: sent bare, it loses its
\* own first part to the prefix stripping.
LooksLikeDataUri(X) == startswith(X, DataPrefix) /\ find(X, ",") # -1

(* C8, amended.  For every payload X that does not itself start with       *)
(* "data:" and hold a comma, X and 'data:image/jpeg;base64,' + X give the  *)
(* same bytes and the same reply on both paths (or both are rejected).     *)
C8_PrefixStripped ==
    (bare # NotRun /\ prefixed # NotRun /\ ~LooksLikeDataUri(payload)) =>
        bare = prefixed

\* Both forms of a payload that decodes to bytes were sent, with a label.
C8_Witness ==
    /\ bare # NotRun
    /\ prefixed # NotRun
    /\ ~LooksLikeDataUri(payload)
    /\ prefixed.http.status = 200
    /\ prefixed.http.image_bytes = <<65>>
    /\ prefixed.ws.body.command = [action |-> "ACK", labelReceived |-> <<"c">>]

----------------------------------------------------------------------------
\* An event that is no text payload, no binary payload and no disconnect.
IsIgnored(data) ==
    data.type # "websocket.disconnect" /\ ~IsDataFrame(data)

\* After the disconnect event no step changes the connection or adds a task.
C10_AfterDisconnect ==
    (wsGone \/ wsPc = "closed") =>
        /\ wsPc' = "closed"
        /\ wsEvents' = wsEvents
        /\ wsRecv' = wsRecv
        /\ wsSent' = wsSent
        /\ wsPending' = wsPending
        /\ Len(tasks') = Len(tasks)

\* Receiving an ignored event changes nothing but the event count.
C10_Ignored ==
    (wsEvents' = wsEvents + 1 /\ IsIgnored(wsData')) =>
        /\ wsPc' = "receive"
        /\ wsRecv' = wsRecv
        /\ wsSent' = wsSent
        /\ wsPending' = wsPending
        /\ tasks' = tasks

(* C10.  Once ws.receive() has returned a disconnect event the loop is     *)
(* over: no further event is received, no reply is produced or sent and no *)
(* save_image task is created for the connection.  An event that is no     *)
(* text payload, no binary payload and no disconnect produces no reply and *)
(* no task, and the handler goes on to the next ws.receive().              *)
C10_DisconnectEndsLoop ==
    /\ [](wsGone => wsPc = "closed" /\ wsPending = NoPending)
    /\ [][C10_AfterDisconnect /\ C10_Ignored]_vars

\* The first event was ignored, the second was the disconnect: the loop is
\* over and nothing was sent.
C10_Witness ==
    /\ wsGone
    /\ wsPc = "closed"
    /\ wsEvents = 2
    /\ wsRecv = 0
    /\ wsSent = <<>>
    /\ tasks = <<>>

====
